---- MODULE Spec2Model ----
(***************************************************************************)
(* Safety-score engine of LozMov/project: population estimation, weighted  *)
(* crime rate and batch normalization (src/safety_score/safety_score.py).  *)
(*                                                                         *)
(* Python floats are modelled as exact rationals <<num, den>> (den > 0,    *)
(* lowest terms); the literal 0.8 is the rational 4/5.  Non-finite float   *)
(* results (nan, inf, -inf) are the pairs <<0,0>>, <<1,0>>, <<-1,0>>.      *)
(***************************************************************************)
EXTENDS Integers, Sequences, FiniteSets, TLC

VARIABLES
    POPULATION,      \* rows of population.csv
    CRIME_DATA,      \* rows of crime_data_clean.csv
    CRIME_WEIGHTS,   \* rows of crime_types.csv
    csv_readable,    \* whether pd.read_csv finds and parses the three files
    call,            \* the query being made, with its arguments
    result,          \* what the query returned or raised
    pc,              \* position inside get_safety_score_data
    cwd,             \* the working directory of the process
    safety_scores    \* the data frame get_safety_score_data builds

tables == <<POPULATION, CRIME_DATA, CRIME_WEIGHTS, csv_readable>>
vars == <<POPULATION, CRIME_DATA, CRIME_WEIGHTS, csv_readable, call, result, pc, cwd,
          safety_scores>>

(***************************************************************************)
(* Program constants                                                       *)
(***************************************************************************)
MinYear == 2001
MaxYear == 2024
Per100k == 100000
DampDen == 5

(***************************************************************************)
(* Bounds of the model                                                     *)
(***************************************************************************)
YearSlack == 1
QueryYears == (MinYear - YearSlack)..(MaxYear + YearSlack)
SampleYears == {2001, 2016, 2021}
PopValues == {0, 100, 150, 225}
Neighbourhoods == {"A", "B"}
RangeYears == {2000, 2001, 2016, 2017, 2024, 2025}
RatePopYears == {2001, 2011}
RatePopValues == {0, 100}
CrimeKeys == {<<2016, "theft">>, <<2016, "assault">>, <<2017, "theft">>}
MaxCount == 1
MaxWeight == 2
FileOrder == <<"A", "B", "C", "D", "E", "F", "G", "H", "I", "J", "K", "L">>
SmallBatches == {1, 2, 3}
BatchYears == {2000, 2016, 2017}
MaxBatchCount == 3
MaxRows == 3
Distances == {<<0, 1>>, <<10, 1>>, <<25, 1>>, <<30, 1>>}

(***************************************************************************)
(* Exact rational arithmetic standing for float arithmetic                 *)
(***************************************************************************)
Abs(x) == IF x < 0 THEN -x ELSE x

RECURSIVE GCD(_, _)
GCD(a, b) == IF b = 0 THEN a ELSE GCD(b, a % b)

Rat(n, d) ==
    LET s == IF d < 0 THEN -1 ELSE 1
        g == GCD(Abs(n), Abs(d))
    IN  <<(s * n) \div g, (s * d) \div g>>

\* non-finite floats, written as fractions with denominator 0
NaN == <<0, 0>>
PosInf == <<1, 0>>
NegInf == <<-1, 0>>

IsRat(q) == q[2] # 0

RAdd(p, q) ==
    IF p = NaN \/ q = NaN THEN NaN
    ELSE IF ~IsRat(p) THEN (IF ~IsRat(q) /\ q # p THEN NaN ELSE p)
    ELSE IF ~IsRat(q) THEN q
    ELSE Rat(p[1] * q[2] + q[1] * p[2], p[2] * q[2])

RSub(p, q) == Rat(p[1] * q[2] - q[1] * p[2], p[2] * q[2])
\* the product, reduced crosswise before multiplying
RMul(p, q) ==
    <<Rat(p[1], q[2])[1] * Rat(q[1], p[2])[1], Rat(p[1], q[2])[2] * Rat(q[1], p[2])[2]>>
RDiv(p, q) == RMul(p, Rat(q[2], q[1]))
\* p < q: by the integer parts, else by the fractional parts over the least
\* common denominator
RLess(p, q) ==
    IF p[1] \div p[2] # q[1] \div q[2] THEN p[1] \div p[2] < q[1] \div q[2]
    ELSE (p[1] % p[2]) * (q[2] \div GCD(p[2], q[2]))
            < (q[1] % q[2]) * (p[2] \div GCD(p[2], q[2]))

\* order of floats other than nan: -inf < finite < inf
FloatLeq(p, q) ==
    IF ~IsRat(p) THEN (p = NegInf \/ q = PosInf)
    ELSE IF ~IsRat(q) THEN q = PosInf
    ELSE ~RLess(q, p)

\* round() of a finite float: to the nearest integer, ties to even
RoundHalfEven(q) ==
    LET f == q[1] \div q[2]
        twice == 2 * (q[1] - f * q[2])
    IN  IF twice < q[2] THEN f
        ELSE IF twice > q[2] THEN f + 1
        ELSE IF f % 2 = 0 THEN f ELSE f + 1

SetMax(S) == CHOOSE x \in S : \A y \in S : y <= x
SetMin(S) == CHOOSE x \in S : \A y \in S : x <= y

Ok(v) == [kind |-> "ok", value |-> v]
Raise(exc, msg) == [kind |-> "raise", exc |-> exc, msg |-> msg]

(***************************************************************************)
(* IEEE-754 binary64 arithmetic, as far as get_population uses it.  A big  *)
(* natural is a sequence of limbs in base 2^12, most significant first.    *)
(* A float is [s, m, e] with value s * m * 2^e, m being a big natural of   *)
(* 53 bits with a leading 1; zero has the empty m.  Every operation        *)
(* computes its exact result s * N / d * 2^e and rounds it to nearest,     *)
(* ties to even.                                                           *)
(***************************************************************************)
MantissaBits == 53
LimbBits == 12
Base == 2^LimbBits
PadLimbs == 6

Zeros(n) == [i \in 1..n |-> 0]

RECURSIVE BigFromNat(_)
BigFromNat(n) == IF n = 0 THEN <<>> ELSE Append(BigFromNat(n \div Base), n % Base)

RECURSIVE BigToNat(_)
BigToNat(b) ==
    IF b = <<>> THEN 0 ELSE Base * BigToNat(SubSeq(b, 1, Len(b) - 1)) + b[Len(b)]

Strip(b) ==
    LET nz == {i \in 1..Len(b) : b[i] # 0}
    IN  IF nz = {} THEN <<>>
        ELSE SubSeq(b, CHOOSE i \in nz : \A j \in nz : i <= j, Len(b))

PadTo(b, n) == Zeros(n - Len(b)) \o b

\* limb number k of b, counted from the least significant one (k = 0)
LimbAt(b, k) == IF k < Len(b) THEN b[Len(b) - k] ELSE 0

RECURSIVE BitLenNat(_)
BitLenNat(n) == IF n = 0 THEN 0 ELSE 1 + BitLenNat(n \div 2)

\* number of significant bits of a stripped big natural
BitLen(b) == IF b = <<>> THEN 0 ELSE LimbBits * (Len(b) - 1) + BitLenNat(b[1])

\* quotient and remainder of b divided by the small d
RECURSIVE DivSmall(_, _, _, _, _)
DivSmall(b, d, i, r, q) ==
    IF i > Len(b) THEN <<q, r>>
    ELSE LET t == Base * r + b[i]
         IN  DivSmall(b, d, i + 1, t % d, Append(q, t \div d))

\* b times the small natural n
RECURSIVE MulSmall(_, _, _, _, _)
MulSmall(b, n, i, carry, acc) ==
    IF i = 0 THEN BigFromNat(carry) \o acc
    ELSE LET t == b[i] * n + carry
         IN  MulSmall(b, n, i - 1, t \div Base, <<t % Base>> \o acc)

\* a + b, both of the same length
RECURSIVE AddBig(_, _, _, _, _)
AddBig(a, b, i, carry, acc) ==
    IF i = 0 THEN (IF carry = 1 THEN <<1>> \o acc ELSE acc)
    ELSE LET t == a[i] + b[i] + carry
         IN  AddBig(a, b, i - 1, t \div Base, <<t % Base>> \o acc)

\* a - b for a >= b, both of the same length
RECURSIVE SubBig(_, _, _, _, _)
SubBig(a, b, i, borrow, acc) ==
    IF i = 0 THEN acc
    ELSE LET t == a[i] - b[i] - borrow
         IN  SubBig(a, b, i - 1, IF t < 0 THEN 1 ELSE 0, <<(t + Base) % Base>> \o acc)

\* a < b, both of the same length
LessBig(a, b) ==
    \E i \in 1..Len(a) : /\ a[i] < b[i]
                         /\ \A j \in 1..(i - 1) : a[j] = b[j]

\* the n low limbs of b shifted right by cut bits
ShiftRight(b, cut, n) ==
    LET k == cut \div LimbBits
        r == cut % LimbBits
    IN  [i \in 1..n |->
            (LimbAt(b, k + n - i) \div 2^r)
              + (LimbAt(b, k + n - i + 1) % 2^r) * 2^(LimbBits - r)]

\* bit number j of b, counted from the least significant one (j = 0)
BitAt(b, j) == (LimbAt(b, j \div LimbBits) \div 2^(j % LimbBits)) % 2

\* some bit of b below bit number j is set
AnyBelow(b, j) ==
    \/ LimbAt(b, j \div LimbBits) % 2^(j % LimbBits) # 0
    \/ \E k \in 0..((j \div LimbBits) - 1) : LimbAt(b, k) # 0

FZero == [s |-> 1, m |-> <<>>, e |-> 0]

MantissaLimbs == 5

\* s * n / d * 2^e rounded to the nearest float, ties to even
FRound(s, n, d, e) ==
    LET qr == DivSmall(n \o Zeros(PadLimbs), d, 1, 0, <<>>)
        q == Strip(qr[1])
        cut == BitLen(q) - MantissaBits
        m == ShiftRight(q, cut, MantissaLimbs)
        sticky == qr[2] # 0 \/ AnyBelow(q, cut - 1)
        up == BitAt(q, cut - 1) = 1 /\ (sticky \/ m[MantissaLimbs] % 2 = 1)
        one == PadTo(<<1>>, MantissaLimbs)
        r == IF up THEN AddBig(m, one, MantissaLimbs, 0, <<>>) ELSE m
        x == e - PadLimbs * LimbBits + cut
    IN  IF q = <<>> THEN FZero
        ELSE IF BitLen(r) > MantissaBits
        THEN [s |-> s, m |-> ShiftRight(r, 1, MantissaLimbs), e |-> x + 1]
        ELSE [s |-> s, m |-> r, e |-> x]

Sign(x) == IF x < 0 THEN -1 ELSE 1

\* a / b of two integers (true division), b > 0
FDiv(a, b) == FRound(Sign(a), BigFromNat(Abs(a)), b, 0)

\* float x times the integer n
FMulInt(x, n) ==
    IF x.m = <<>> \/ n = 0 THEN FZero
    ELSE FRound(x.s * Sign(n), MulSmall(x.m, Abs(n), Len(x.m), 0, <<>>), 1, x.e)

\* float x times the literal 0.8, which is the double (2^54 + 1) / (5 * 2^52)
FMulDamp(x) ==
    IF x.m = <<>> THEN FZero
    ELSE LET hi == MulSmall(x.m, 64, Len(x.m), 0, <<>>) \o Zeros(4)
             lo == PadTo(x.m, Len(hi))
         IN  FRound(x.s, AddBig(hi, lo, Len(hi), 0, <<>>), DampDen, x.e - 52)

\* integer n plus float x (x.e <= 0: x is below 2^53 in magnitude)
FAddInt(n, x) ==
    IF x.m = <<>> THEN FRound(Sign(n), BigFromNat(Abs(n)), 1, 0)
    ELSE
    LET big == BigFromNat(Abs(n))
        a0 == MulSmall(big, 2^((-x.e) % LimbBits), Len(big), 0, <<>>)
                \o Zeros((-x.e) \div LimbBits)
        len == (IF Len(a0) > Len(x.m) THEN Len(a0) ELSE Len(x.m))
        a == PadTo(a0, len)
        b == PadTo(x.m, len)
    IN  IF Sign(n) = x.s \/ n = 0
        THEN FRound(x.s, AddBig(a, b, len, 0, <<>>), 1, x.e)
        ELSE IF LessBig(a, b)
        THEN FRound(x.s, SubBig(b, a, len, 0, <<>>), 1, x.e)
        ELSE FRound(Sign(n), SubBig(a, b, len, 0, <<>>), 1, x.e)

\* int(x): truncation toward zero (x.e <= 0)
FInt(x) ==
    IF x.m = <<>> \/ MantissaBits + x.e <= 0 THEN 0
    ELSE x.s * BigToNat(Strip(ShiftRight(x.m, -x.e, MantissaLimbs)))

(***************************************************************************)
(* get_population                                                          *)
(***************************************************************************)
\* variant: the neighbourhood mask is forgotten
rows_of_unfiltered(df, neighbourhood) == df

\* df[df["neighbourhood"] == neighbourhood]
rows_of(df, neighbourhood) == {r \in df : r.neighbourhood = neighbourhood}

\* variant: .values[0] taken without the year mask (first row of the slice)
population_at_first(data, y) ==
    (CHOOSE r \in data : \A x \in data : r.year <= x.year).population

\* data.loc[data["year"] == y, "population"].values[0]
population_at(data, y) == (CHOOSE r \in data : r.year = y).population

\* lines 68-75: dampened linear extrapolation from the last two samples
extrapolate(data, year) ==
    LET available_years == {r.year : r \in data}
        last == SetMax(available_years)
        previous == SetMax(available_years \ {last})
        pop_recent == population_at(data, last)
        pop_previous == population_at(data, previous)
        years_diff == last - previous
        growth_rate == FDiv(pop_recent - pop_previous, years_diff)
        dampened_rate == FMulDamp(growth_rate)
    IN  FInt(FAddInt(pop_recent, FMulInt(dampened_rate, year - last)))

\* lines 83-86: linear interpolation between the bracketing samples
interpolate(data, lower_year, upper_year, year) ==
    LET pop_lower == population_at(data, lower_year)
        pop_upper == population_at(data, upper_year)
        fraction == FDiv(year - lower_year, upper_year - lower_year)
    IN  FInt(FAddInt(pop_lower, FMulInt(fraction, pop_upper - pop_lower)))

get_population(df, neighbourhood, year) ==
    IF year < MinYear \/ year > MaxYear
    THEN Raise("ValueError", "Year must be between 2001 and 2024.")
    ELSE
    LET data == rows_of(df, neighbourhood)
        available_years == {r.year : r \in data}
    IN  IF year \in available_years
        THEN Ok(population_at(data, year))
        ELSE IF available_years = {}
        THEN Raise("IndexError", "list index out of range")
        ELSE IF year > SetMax(available_years)
        THEN IF Cardinality(available_years) < 2
             THEN Ok(population_at(data, SetMax(available_years)))
             ELSE Ok(extrapolate(data, year))
        ELSE
        LET lowers == {y \in available_years : y <= year}
            uppers == {y \in available_years : y >= year}
        IN  IF lowers = {}
            THEN Raise("ValueError", "max() arg is an empty sequence")
            ELSE IF SetMax(lowers) = SetMin(uppers)
            THEN Ok(population_at(data, SetMax(lowers)))
            ELSE Ok(interpolate(data, SetMax(lowers), SetMin(uppers), year))

get_population_with_type(df, neighbourhood, year) ==
    IF year < MinYear \/ year > MaxYear
    THEN Raise("ValueError", "Year must be between 2001 and 2024.")
    ELSE
    LET data == rows_of(df, neighbourhood)
        pop == get_population(df, neighbourhood, year)
    IN  IF pop.kind = "raise" THEN pop
        ELSE Ok(<<pop.value, year \in {r.year : r \in data}>>)

(***************************************************************************)
(* calculate_weighted_crime_rate                                           *)
(***************************************************************************)
\* variant: single-year ranges are rejected (>= instead of >)
range_error_strict(start_year, end_year) ==
    IF start_year < MinYear \/ end_year > MaxYear
    THEN Raise("ValueError", "Year must be between 2001 and 2024.")
    ELSE IF start_year >= end_year
    THEN Raise("ValueError", "Start year must be less than or equal to end year.")
    ELSE Ok(TRUE)

\* lines 109-112: the two range checks, in order
range_error(start_year, end_year) ==
    IF start_year < MinYear \/ end_year > MaxYear
    THEN Raise("ValueError", "Year must be between 2001 and 2024.")
    ELSE IF start_year > end_year
    THEN Raise("ValueError", "Start year must be less than or equal to end year.")
    ELSE Ok(TRUE)

\* weight_df[weight_df["type"] == crime_type]["weight"].values
weights_of(weight_df, crime_type) == {w \in weight_df : w.type = crime_type}

RECURSIVE weighted_sum(_, _)
weighted_sum(rows, weight_df) ==
    IF rows = {} THEN 0
    ELSE LET r == CHOOSE x \in rows : TRUE
             weight == (CHOOSE w \in weights_of(weight_df, r.crime_type) : TRUE).weight
         IN  r.count * weight + weighted_sum(rows \ {r}, weight_df)

\* variant: records whose crime type has no weight are skipped
weighted_crimes_skip(rows, weight_df) ==
    Ok(weighted_sum({r \in rows : weights_of(weight_df, r.crime_type) # {}}, weight_df))

\* lines 124-127: the inner loop over the records of one year
weighted_crimes(rows, weight_df) ==
    IF \E r \in rows : weights_of(weight_df, r.crime_type) = {}
    THEN Raise("IndexError", "index 0 is out of bounds for axis 0 with size 0")
    ELSE Ok(weighted_sum(rows, weight_df))

\* line 130: (weighted_crimes / population) * 100000.  With no record the
\* dividend is the Python int 0 and a zero divisor raises; otherwise it is a
\* numpy scalar and a zero divisor gives nan or +-inf.
crime_rate(rows, weighted, population) ==
    IF population # 0 THEN Ok(Rat(weighted * Per100k, population))
    ELSE IF rows = {} THEN Raise("ZeroDivisionError", "division by zero")
    ELSE IF weighted = 0 THEN Ok(NaN)
    ELSE IF weighted > 0 THEN Ok(PosInf)
    ELSE Ok(NegInf)

\* lines 123-130 for one year: the first error raised, else the year's rate
year_rate(rows, weighted, population) ==
    IF weighted.kind = "raise" THEN weighted
    ELSE IF population.kind = "raise" THEN population
    ELSE crime_rate(rows, weighted.value, population.value)

RECURSIVE year_loop(_, _, _, _, _, _, _)
\* line 131: the year's rate is added and the loop goes on with the next year
add_rate(data, weight_df, population_df, neighbourhood, year, end_year, total, rate) ==
    IF rate.kind = "raise" THEN rate
    ELSE year_loop(data, weight_df, population_df, neighbourhood,
                   year + 1, end_year, RAdd(total, rate.value))

\* lines 122-131: the loop over the years, from year to end_year
year_loop(data, weight_df, population_df, neighbourhood, year, end_year, total) ==
    IF year > end_year THEN Ok(total)
    ELSE add_rate(data, weight_df, population_df, neighbourhood, year, end_year, total,
                  year_rate({r \in data : r.year = year},
                            weighted_crimes({r \in data : r.year = year}, weight_df),
                            get_population(population_df, neighbourhood, year)))

\* line 134: total / number of years
RDivInt(q, k) == IF IsRat(q) THEN Rat(q[1], q[2] * k) ELSE q

mean_rate(total, years) ==
    IF total.kind = "raise" THEN total ELSE Ok(RDivInt(total.value, years))

calculate_weighted_crime_rate(crime_df, weight_df, population_df, neighbourhood, start_year, end_year) ==
    IF range_error(start_year, end_year).kind = "raise"
    THEN range_error(start_year, end_year)
    ELSE mean_rate(year_loop({r \in crime_df : /\ r.neighbourhood = neighbourhood
                                               /\ r.year >= start_year
                                               /\ r.year <= end_year},
                             weight_df, population_df, neighbourhood,
                             start_year, end_year, <<0, 1>>),
                   end_year - start_year + 1)

(***************************************************************************)
(* Input tables                                                            *)
(***************************************************************************)
\* population tables with at most one sample per (neighbourhood, year)
PopSlices(n, years, values) ==
    { {[neighbourhood |-> n, year |-> y, population |-> f[y]] :
            y \in {z \in years : f[z] # -1}} :
        f \in [years -> values \cup {-1}] }

NoCall == [op |-> "none"]

EmptyFrame == [rows |-> <<>>, minmax |-> <<>>, zscore |-> <<>>]

\* before any query: nothing called, the process is in the caller's directory
Idle ==
    /\ call = NoCall
    /\ result = NoCall
    /\ pc = "idle"
    /\ cwd = "caller"
    /\ safety_scores = EmptyFrame

InitPop ==
    /\ \E a \in PopSlices("A", SampleYears, PopValues) :
            POPULATION = a \cup {[neighbourhood |-> "B", year |-> 2016, population |-> 150]}
    /\ CRIME_DATA = {}
    /\ CRIME_WEIGHTS = {}
    /\ csv_readable = TRUE
    /\ Idle

\* crime tables: at most one record per (neighbourhood, year, crime_type)
CrimeSlices(n, keys, counts) ==
    { {[neighbourhood |-> n, year |-> k[1], crime_type |-> k[2], count |-> f[k]] :
            k \in {z \in keys : f[z] # -1}} :
        f \in [keys -> counts \cup {-1}] }

\* weight tables: at most one weight per crime type
WeightTables ==
    { {[type |-> "theft", weight |-> 1]} \cup t :
        t \in { {}, {[type |-> "assault", weight |-> MaxWeight]} } }

InitRate ==
    /\ \E a \in PopSlices("A", RatePopYears, RatePopValues) :
            POPULATION = a \cup {[neighbourhood |-> "B", year |-> 2016, population |-> 150]}
    /\ \E a \in CrimeSlices("A", CrimeKeys, 0..MaxCount) :
            CRIME_DATA = a \cup {[neighbourhood |-> "B", year |-> 2016,
                                  crime_type |-> "theft", count |-> 3]}
    /\ CRIME_WEIGHTS \in WeightTables
    /\ csv_readable = TRUE
    /\ Idle

\* batches: the first one, two or three neighbourhoods of the file, or all
\* twelve, each with one census sample of 100000 (so that a year's rate is its weighted
\* count), a theft record per neighbourhood and possibly an assault record
\* for "B"
BatchPopulation(k) ==
    {[neighbourhood |-> FileOrder[i], year |-> 2016, population |-> Per100k] : i \in 1..k}

\* theft counts per row: every combination in a small batch; in the batch
\* of the whole file one row has a count and the others none
BatchCounts(k) ==
    IF k \in SmallBatches
    THEN [1..k -> 0..MaxBatchCount]
    ELSE { [i \in 1..k |-> IF i = j THEN c ELSE 0] : j \in {1, k}, c \in 1..MaxBatchCount }

BatchCrime(k) ==
    { {[neighbourhood |-> FileOrder[i], year |-> 2016, crime_type |-> "theft",
        count |-> f[i]] : i \in 1..k} \cup extra :
        f \in BatchCounts(k),
        extra \in { {}, {[neighbourhood |-> "B", year |-> 2017,
                          crime_type |-> "assault", count |-> 1]} } }

BatchWeightTables ==
    { {[type |-> "theft", weight |-> 10]} \cup t :
        t \in { {}, {[type |-> "assault", weight |-> MaxWeight]} } }

InitBatch ==
    /\ \E k \in SmallBatches \cup {Len(FileOrder)} :
            /\ POPULATION = BatchPopulation(k)
            /\ CRIME_DATA \in BatchCrime(k)
    /\ CRIME_WEIGHTS \in BatchWeightTables
    /\ csv_readable \in BOOLEAN
    /\ Idle

(***************************************************************************)
(* Operations.  A behaviour is one query against the loaded tables: the    *)
(* functions are pure and the tables are never written.                    *)
(***************************************************************************)
GetPopulation ==
    \E n \in Neighbourhoods, y \in QueryYears :
        /\ call = NoCall
        /\ call' = [op |-> "get_population", neighbourhood |-> n, year |-> y]
        /\ result' = get_population(POPULATION, n, y)
        /\ UNCHANGED <<tables, pc, cwd, safety_scores>>

GetPopulationWithType ==
    \E n \in Neighbourhoods, y \in QueryYears :
        /\ call = NoCall
        /\ call' = [op |-> "get_population_with_type", neighbourhood |-> n, year |-> y]
        /\ result' = get_population_with_type(POPULATION, n, y)
        /\ UNCHANGED <<tables, pc, cwd, safety_scores>>

CalculateWeightedCrimeRate ==
    \E n \in Neighbourhoods, s \in RangeYears, e \in RangeYears :
        /\ call = NoCall
        /\ call' = [op |-> "calculate_weighted_crime_rate", neighbourhood |-> n,
                    start_year |-> s, end_year |-> e]
        /\ result' = calculate_weighted_crime_rate(CRIME_DATA, CRIME_WEIGHTS,
                                                   POPULATION, n, s, e)
        /\ UNCHANGED <<tables, pc, cwd, safety_scores>>

(***************************************************************************)
(* min_max_normalize and the two normalization passes                      *)
(***************************************************************************)
\* == on floats: nan equals nothing
FloatEq(p, q) == p # NaN /\ p = q

\* variant: the scale is not inverted (the lowest rate gets 0)
min_max_normalize_direct(val, min_val, max_val) ==
    IF FloatEq(max_val, min_val) THEN Ok(50)
    ELSE IF IsRat(val) /\ IsRat(min_val) /\ IsRat(max_val)
    THEN Ok(RoundHalfEven(RMul(<<100, 1>>,
                               RDiv(RSub(val, min_val), RSub(max_val, min_val)))))
    ELSE Raise("ValueError", "cannot convert float NaN to integer")

\* lines 15-17.  With a non-finite operand the quotient is 0 (finite val and
\* min_val, infinite max_val) or nan, and round(nan) raises.
min_max_normalize(val, min_val, max_val) ==
    IF FloatEq(max_val, min_val) THEN Ok(50)
    ELSE IF IsRat(val) /\ IsRat(min_val) /\ IsRat(max_val)
    THEN Ok(RoundHalfEven(RMul(<<100, 1>>,
                               RSub(<<1, 1>>, RDiv(RSub(val, min_val),
                                                   RSub(max_val, min_val))))))
    ELSE IF IsRat(val) /\ IsRat(min_val) /\ max_val = PosInf
    THEN Ok(100)
    ELSE Raise("ValueError", "cannot convert float NaN to integer")

\* Series.min() and Series.max(): nan is skipped, nan when nothing is left
column_min(rates) ==
    LET S == {rates[i] : i \in 1..Len(rates)} \ {NaN}
    IN  IF S = {} THEN NaN ELSE CHOOSE x \in S : \A y \in S : FloatLeq(x, y)

column_max(rates) ==
    LET S == {rates[i] : i \in 1..Len(rates)} \ {NaN}
    IN  IF S = {} THEN NaN ELSE CHOOSE x \in S : \A y \in S : FloatLeq(y, x)

\* lines 164-166: the min-max column, or the error apply() lets through
min_max_column(rates) ==
    LET min_rate == column_min(rates)
        max_rate == column_max(rates)
        scores == [i \in 1..Len(rates) |-> min_max_normalize(rates[i], min_rate, max_rate)]
    IN  IF \E i \in 1..Len(rates) : scores[i].kind = "raise"
        THEN scores[CHOOSE i \in 1..Len(rates) :
                        /\ scores[i].kind = "raise"
                        /\ \A j \in 1..(i - 1) : scores[j].kind = "ok"]
        ELSE Ok([i \in 1..Len(rates) |-> scores[i].value])

RECURSIVE RSum(_, _)
RSum(rates, i) == IF i = 0 THEN <<0, 1>> ELSE RAdd(RSum(rates, i - 1), rates[i])

\* Series.mean() of finite rates
column_mean(rates) == RDivInt(RSum(rates, Len(rates)), Len(rates))

\* variant: the population variance (divisor N)
column_var_population(rates) ==
    LET mean == column_mean(rates)
        sq == [i \in 1..Len(rates) |-> RMul(RSub(rates[i], mean), RSub(rates[i], mean))]
    IN  RDivInt(RSum(sq, Len(rates)), Len(rates))

\* the square of Series.std() of finite rates: divisor N - 1
column_var(rates) ==
    LET mean == column_mean(rates)
        sq == [i \in 1..Len(rates) |-> RMul(RSub(rates[i], mean), RSub(rates[i], mean))]
    IN  RDivInt(RSum(sq, Len(rates)), Len(rates) - 1)

\* the largest j with j^2 * v <= a^2, searched upward from j
RECURSIVE FloorRoot(_, _, _)
FloorRoot(a2, v, j) ==
    IF RLess(a2, RMul(<<(j + 1) * (j + 1), 1>>, v)) THEN j ELSE FloorRoot(a2, v, j + 1)

\* variant: the z-score is not negated (a higher rate gets a higher score)
z_score_unnegated(rate, mean, var) ==
    LET d == RSub(rate, mean)
        x2 == RMul(RDiv(RMul(d, d), var), <<2500, 9>>)
        j == FloorRoot(x2, <<1, 1>>, 0)
        half == <<(2 * j + 1) * (2 * j + 1), 4>>
        mag == IF RLess(x2, half) THEN j
               ELSE IF RLess(half, x2) THEN j + 1
               ELSE IF j % 2 = 0 THEN j ELSE j + 1
    IN  50 + Sign(d[1]) * mag

\* lines 171-173 for one rate: round(50 + -((rate - mean) / std) * 50 / 3),
\* var being the square of std (var > 0).  x2 is the square of
\* ((rate - mean) / std) * 50 / 3, j the integer part of its root, and the
\* root is rounded to the nearest integer, ties to even.
z_score(rate, mean, var) ==
    LET d == RSub(mean, rate)
        x2 == RMul(RDiv(RMul(d, d), var), <<2500, 9>>)
        j == FloorRoot(x2, <<1, 1>>, 0)
        half == <<(2 * j + 1) * (2 * j + 1), 4>>
        mag == IF RLess(x2, half) THEN j
               ELSE IF RLess(half, x2) THEN j + 1
               ELSE IF j % 2 = 0 THEN j ELSE j + 1
    IN  50 + Sign(d[1]) * mag

\* lines 169-171: std is nan for a single row (N - 1 = 0) and the quotient
\* is 0/0 when std = 0; non-finite rates that pass the min-max step are all
\* equal, and their deviations from the mean are nan
z_undefined(rates) ==
    \/ Len(rates) < 2
    \/ \E i \in 1..Len(rates) : ~IsRat(rates[i])
    \/ column_var(rates)[1] = 0

\* lines 171-172: the column before round() when z_undefined
z_nan_column(rates) == [i \in 1..Len(rates) |-> NaN]

\* lines 169-173: the z-score column.  A nan or infinite z-score (a single
\* row, std = 0, a non-finite rate) makes astype(int) raise.
z_score_column(rates) ==
    IF rates = <<>> THEN Ok(<<>>)
    ELSE IF z_undefined(rates)
    THEN Raise("IntCastingNaNError",
               "Cannot convert non-finite values (NA or inf) to integer")
    ELSE Ok([i \in 1..Len(rates) |->
                z_score(rates[i], column_mean(rates), column_var(rates))])

(***************************************************************************)
(* get_safety_score_data, one step per statement group                     *)
(***************************************************************************)
\* line 153: POPULATION["neighbourhood"].unique(), in file order
NEIGHBOURHOODS ==
    SelectSeq(FileOrder, LAMBDA n : \E r \in POPULATION : r.neighbourhood = n)

RateColumn(frame) == [i \in 1..Len(frame.rows) |-> frame.rows[i].rate]

\* lines 148-149: remember the directory, change to the module's
Enter ==
    \E s \in BatchYears, e \in BatchYears :
        /\ call = NoCall
        /\ pc = "idle"
        /\ call' = [op |-> "get_safety_score_data", start_year |-> s, end_year |-> e]
        /\ cwd' = "module"
        /\ pc' = "load"
        /\ UNCHANGED <<tables, result, safety_scores>>

\* lines 150-156: read the three files, create the empty frame
LoadTables ==
    /\ pc = "load"
    /\ IF csv_readable
       THEN /\ pc' = IF NEIGHBOURHOODS = <<>> THEN "minmax" ELSE "rates"
            /\ UNCHANGED result
       ELSE /\ pc' = "failed"
            /\ result' = Raise("FileNotFoundError", "No such file or directory")
    /\ UNCHANGED <<tables, call, cwd, safety_scores>>

\* variant: a neighbourhood whose rate raises ends the loop, and the rows
\* collected so far are normalized
append_row_partial(neighbourhood, rate) ==
    IF rate.kind = "raise"
    THEN /\ pc' = "minmax"
         /\ UNCHANGED <<result, safety_scores>>
    ELSE /\ safety_scores' =
               [safety_scores EXCEPT !.rows =
                   Append(@, [Neighborhood |-> neighbourhood, rate |-> rate.value])]
         /\ pc' = IF Len(safety_scores.rows) + 1 = Len(NEIGHBOURHOODS)
                  THEN "minmax" ELSE "rates"
         /\ UNCHANGED result

\* lines 161-162: the row appended for a neighbourhood, or the error of
\* its rate ending the call
append_row(neighbourhood, rate) ==
    IF rate.kind = "raise"
    THEN /\ pc' = "failed"
         /\ result' = rate
         /\ UNCHANGED safety_scores
    ELSE /\ safety_scores' =
               [safety_scores EXCEPT !.rows =
                   Append(@, [Neighborhood |-> neighbourhood, rate |-> rate.value])]
         /\ pc' = IF Len(safety_scores.rows) + 1 = Len(NEIGHBOURHOODS)
                  THEN "minmax" ELSE "rates"
         /\ UNCHANGED result

\* lines 158-162: one iteration of the loop over NEIGHBOURHOODS
RateStep ==
    /\ pc = "rates"
    /\ append_row(NEIGHBOURHOODS[Len(safety_scores.rows) + 1],
                  calculate_weighted_crime_rate(
                      CRIME_DATA, CRIME_WEIGHTS, POPULATION,
                      NEIGHBOURHOODS[Len(safety_scores.rows) + 1],
                      call.start_year, call.end_year))
    /\ UNCHANGED <<tables, call, cwd>>

\* lines 164-166: min-max normalization
MinMaxStep ==
    /\ pc = "minmax"
    /\ LET column == min_max_column(RateColumn(safety_scores))
       IN  IF column.kind = "raise"
           THEN /\ pc' = "failed"
                /\ result' = column
                /\ UNCHANGED safety_scores
           ELSE /\ safety_scores' = [safety_scores EXCEPT !.minmax = column.value]
                /\ pc' = "zscore"
                /\ UNCHANGED result
    /\ UNCHANGED <<tables, call, cwd>>

\* lines 169-173: z-score normalization
ZScoreStep ==
    /\ pc = "zscore"
    /\ LET column == z_score_column(RateColumn(safety_scores))
       IN  IF column.kind = "raise"
           THEN /\ pc' = "failed"
                /\ result' = column
                /\ safety_scores' = [safety_scores EXCEPT
                                        !.zscore = z_nan_column(RateColumn(safety_scores))]
           ELSE /\ safety_scores' = [safety_scores EXCEPT !.zscore = column.value]
                /\ pc' = "restore"
                /\ UNCHANGED result
    /\ UNCHANGED <<tables, call, cwd>>

\* lines 175-177: change back to the remembered directory, return the frame
Return ==
    /\ pc = "restore"
    /\ cwd' = "caller"
    /\ result' = Ok(safety_scores)
    /\ pc' = "done"
    /\ UNCHANGED <<tables, call, safety_scores>>

get_safety_score_data == Enter \/ LoadTables \/ RateStep \/ MinMaxStep \/ ZScoreStep \/ Return

(***************************************************************************)
(* get_address_score (src/address_score) and the script of src/address     *)
(***************************************************************************)
\* a missing Driving_Distance_m is nan
Missing == NaN

\* listings: rows numbered by their index, each with a distance or none
Listings ==
    UNION { { [i \in 1..n |-> [index |-> i, Driving_Distance_m |-> f[i]]] :
                f \in [1..n -> Distances \cup {Missing}] } : n \in 0..MaxRows }

\* variant: equal bounds score 50, as in min_max_normalize
compute_score_fifty(d, min_dist, max_dist) ==
    IF max_dist = min_dist THEN <<50, 1>>
    ELSE RMul(<<100, 1>>, RSub(<<1, 1>>, RDiv(RSub(d, min_dist), RSub(max_dist, min_dist))))

\* lines 28-31
compute_score(d, min_dist, max_dist) ==
    IF max_dist = min_dist THEN <<100, 1>>
    ELSE RMul(<<100, 1>>, RSub(<<1, 1>>, RDiv(RSub(d, min_dist), RSub(max_dist, min_dist))))

\* line 21: df[df['Driving_Distance_m'].notna()]
notna_rows(df) == SelectSeq(df, LAMBDA r : r.Driving_Distance_m # Missing)

\* line 34: the Address_Scores column, from the min and max of lines 24-25
scored_rows(df) ==
    [i \in 1..Len(df) |->
        [index |-> df[i].index,
         Driving_Distance_m |-> df[i].Driving_Distance_m,
         Address_Scores |->
            compute_score(df[i].Driving_Distance_m,
                          column_min([j \in 1..Len(df) |-> df[j].Driving_Distance_m]),
                          column_max([j \in 1..Len(df) |-> df[j].Driving_Distance_m]))]]

\* line 37: sort_values(by='Address_Scores', ascending=False); the sort is
\* not stable, so rows of equal score come in any order
sort_values(df) ==
    { [i \in 1..Len(df) |-> df[f[i]]] :
        f \in { g \in [1..Len(df) -> 1..Len(df)] :
                  /\ \A i, j \in 1..Len(df) : i # j => g[i] # g[j]
                  /\ \A i, j \in 1..Len(df) :
                        i < j => ~RLess(df[g[i]].Address_Scores, df[g[j]].Address_Scores) } }

\* lines 16-39: the frames the call can return, or the error it raises
get_address_score(df, has_column) ==
    IF ~has_column
    THEN {Raise("ValueError", "Input DataFrame must contain 'Driving_Distance_m' column.")}
    ELSE {Ok(sorted) : sorted \in sort_values(scored_rows(notna_rows(df)))}

InitAddress ==
    /\ POPULATION = {}
    /\ CRIME_DATA = {}
    /\ CRIME_WEIGHTS = {}
    /\ csv_readable = TRUE
    /\ Idle

GetAddressScore ==
    \E df \in Listings, has_column \in BOOLEAN :
        /\ call = NoCall
        /\ call' = [op |-> "get_address_score", df |-> df, has_column |-> has_column]
        /\ result' \in get_address_score(df, has_column)
        /\ UNCHANGED <<tables, pc, cwd, safety_scores>>

NextPop == GetPopulation \/ GetPopulationWithType

NextRate == GetPopulation \/ GetPopulationWithType \/ CalculateWeightedCrimeRate

SpecPop == InitPop /\ [][NextPop]_vars

SpecRate == InitRate /\ [][NextRate]_vars

SpecBatch == InitBatch /\ [][get_safety_score_data]_vars

SpecAddress == InitAddress /\ [][GetAddressScore]_vars

Init == InitPop \/ InitRate \/ InitBatch \/ InitAddress

Next ==
    \/ GetPopulation
    \/ GetPopulationWithType
    \/ CalculateWeightedCrimeRate
    \/ get_safety_score_data
    \/ GetAddressScore

Spec == Init /\ [][Next]_vars

(***************************************************************************)
(* Properties of the population estimator                                  *)
(***************************************************************************)
Samples(n) == {r \in POPULATION : r.neighbourhood = n}
ValidYear(y) == y >= MinYear /\ y <= MaxYear
YearError == Raise("ValueError", "Year must be between 2001 and 2024.")
OrderError == Raise("ValueError", "Start year must be less than or equal to end year.")

\* v is the fraction N/D (D > 0) truncated toward zero
IsTruncOf(v, N, D) ==
    /\ Abs(v) * D <= Abs(N)
    /\ Abs(N) < (Abs(v) + 1) * D
    /\ (v # 0 => ((v > 0) <=> (N > 0)))

\* C1: when the population table holds a sample for the queried
\* (neighbourhood, year), with the year in [2001, 2024], get_population
\* returns exactly that sample's population, whatever the other samples are.
C1_ExactSample ==
    call.op = "get_population" =>
        \A r \in Samples(call.neighbourhood) :
            (r.year = call.year /\ ValidYear(call.year)) => result = Ok(r.population)

C1_Witness ==
    /\ call.op = "get_population"
    /\ Cardinality(Samples(call.neighbourhood)) = 3
    /\ call.year = 2016
    /\ \E r \in Samples(call.neighbourhood) :
          /\ r.year = call.year
          /\ result = Ok(r.population)
          /\ \E o \in Samples(call.neighbourhood) :
                o.year < r.year /\ o.population # r.population

\* C2: between two adjacent samples (year1 < year < year3, no sample strictly
\* between year1 and year3) get_population returns
\* pop1 + (year-year1)/(year3-year1) * (pop3-pop1) truncated toward zero, and
\* the result lies between the two sample populations, inclusive.
C2_Interpolation ==
    call.op = "get_population" =>
        \A r1, r3 \in Samples(call.neighbourhood) :
            ( /\ r1.year < call.year
              /\ call.year < r3.year
              /\ ~ \E m \in Samples(call.neighbourhood) :
                      r1.year < m.year /\ m.year < r3.year )
            => /\ result.kind = "ok"
               /\ IsTruncOf(result.value,
                            r1.population * (r3.year - r1.year)
                              + (call.year - r1.year) * (r3.population - r1.population),
                            r3.year - r1.year)
               /\ \/ (r1.population <= result.value /\ result.value <= r3.population)
                  \/ (r3.population <= result.value /\ result.value <= r1.population)

\* C3: for a year in [2001, 2024] after every sample year of the
\* neighbourhood, get_population returns the only sample's population when
\* there is one sample, and otherwise
\* pop(recent) + (year - year(recent)) * 0.8 * (pop(recent) - pop(previous))
\*   / (year(recent) - year(previous)) truncated toward zero, recent and
\* previous being the two latest samples; samples (2001,100),(2016,150) give
\* 171 for 2024.
C3_Extrapolation ==
    ( /\ call.op = "get_population"
      /\ ValidYear(call.year)
      /\ Samples(call.neighbourhood) # {}
      /\ \A r \in Samples(call.neighbourhood) : r.year < call.year )
    => /\ \A recent \in Samples(call.neighbourhood) :
            Samples(call.neighbourhood) = {recent} => result = Ok(recent.population)
       /\ \A recent, previous \in Samples(call.neighbourhood) :
            ( /\ previous.year < recent.year
              /\ \A o \in Samples(call.neighbourhood) \ {recent, previous} :
                    o.year < previous.year )
            => /\ result.kind = "ok"
               /\ IsTruncOf(result.value,
                            recent.population * (recent.year - previous.year) * 5
                              + (call.year - recent.year) * 4
                                  * (recent.population - previous.population),
                            (recent.year - previous.year) * 5)
       /\ ( /\ Samples(call.neighbourhood) =
                 {[neighbourhood |-> call.neighbourhood, year |-> 2001, population |-> 100],
                  [neighbourhood |-> call.neighbourhood, year |-> 2016, population |-> 150]}
            /\ call.year = 2024 )
          => result = Ok(171)

\* C4: for a year in [2001, 2024] below every sample year of a neighbourhood
\* that has a sample, get_population returns the population of the earliest
\* sample instead of failing.
C4_BelowFirstSample ==
    ( /\ call.op = "get_population"
      /\ ValidYear(call.year)
      /\ Samples(call.neighbourhood) # {}
      /\ \A r \in Samples(call.neighbourhood) : call.year < r.year )
    => \E first \in Samples(call.neighbourhood) :
          /\ \A r \in Samples(call.neighbourhood) : first.year <= r.year
          /\ result = Ok(first.population)

(***************************************************************************)
(* Properties of the weighted crime rate                                   *)
(***************************************************************************)
ValidRange(s, e) == s >= MinYear /\ e <= MaxYear /\ s <= e

Records(n, s, e) ==
    {r \in CRIME_DATA : r.neighbourhood = n /\ r.year >= s /\ r.year <= e}

HasWeight(t) == \E w \in CRIME_WEIGHTS : w.type = t

\* C5: a year outside [2001, 2024] makes get_population and
\* get_population_with_type raise the year error whatever the tables hold;
\* calculate_weighted_crime_rate raises a range error exactly when
\* start_year < 2001 or end_year > 2024 or start_year > end_year, so
\* (2001, 2024) is accepted and (2000, 2024) is rejected.
C5_YearValidation ==
    /\ call.op \in {"get_population", "get_population_with_type"}
         => (~ValidYear(call.year) => result = YearError)
    /\ call.op = "calculate_weighted_crime_rate"
         => /\ ~ValidRange(call.start_year, call.end_year)
                  <=> result \in {YearError, OrderError}
            /\ (call.start_year = 2001 /\ call.end_year = 2024)
                  => result \notin {YearError, OrderError}
            /\ (call.start_year = 2000 /\ call.end_year = 2024)
                  => result = YearError

C5_Witness ==
    /\ call.op = "calculate_weighted_crime_rate"
    /\ call.start_year = 2001
    /\ call.end_year = 2024
    /\ result.kind = "ok"

\* the sum of count * weight over a set of records
RECURSIVE WeightedCount(_)
WeightedCount(rows) ==
    IF rows = {} THEN 0
    ELSE LET r == CHOOSE x \in rows : TRUE
         IN  r.count * (CHOOSE w \in CRIME_WEIGHTS : w.type = r.crime_type).weight
               + WeightedCount(rows \ {r})

\* the sum over the years y..e of weighted count / population(y) * 100000
RECURSIVE RateSum(_, _, _)
RateSum(n, y, e) ==
    IF y > e THEN <<0, 1>>
    ELSE RAdd(Rat(WeightedCount(Records(n, y, y)) * Per100k,
                  get_population(POPULATION, n, y).value),
              RateSum(n, y + 1, e))

RateDefined(n, s, e) ==
    \A y \in s..e : /\ get_population(POPULATION, n, y).kind = "ok"
                    /\ get_population(POPULATION, n, y).value # 0

\* C6: for a valid range (every record weighted, the neighbourhood sampled)
\* calculate_weighted_crime_rate returns the mean over the years of the range
\* of weighted count / population * 100000; a year without records adds 0 and
\* still counts in the divisor; with only zero counts the result is 0.
C6_RateFormula ==
    ( /\ call.op = "calculate_weighted_crime_rate"
      /\ ValidRange(call.start_year, call.end_year)
      /\ Samples(call.neighbourhood) # {}
      /\ \A r \in Records(call.neighbourhood, call.start_year, call.end_year) :
            HasWeight(r.crime_type) )
    => /\ result.kind = "ok"
       /\ RateDefined(call.neighbourhood, call.start_year, call.end_year)
       /\ LET total == RateSum(call.neighbourhood, call.start_year, call.end_year)
          IN  result.value = Rat(total[1], total[2] * (call.end_year - call.start_year + 1))
       /\ (\A r \in Records(call.neighbourhood, call.start_year, call.end_year) :
              r.count = 0) => result.value = <<0, 1>>

\* The formula of C6 where every year of the range has a non-zero estimate.
RateFormulaWhereDefined ==
    ( /\ call.op = "calculate_weighted_crime_rate"
      /\ ValidRange(call.start_year, call.end_year)
      /\ \A r \in Records(call.neighbourhood, call.start_year, call.end_year) :
            HasWeight(r.crime_type)
      /\ RateDefined(call.neighbourhood, call.start_year, call.end_year) )
    => LET total == RateSum(call.neighbourhood, call.start_year, call.end_year)
       IN  result = Ok(Rat(total[1], total[2] * (call.end_year - call.start_year + 1)))

\* C7: with non-negative samples and counts and positive weights, every rate
\* returned is a finite non-negative number, and the population that divides
\* each year of the range is positive.
C7_NonNegativeRate ==
    ( /\ call.op = "calculate_weighted_crime_rate"
      /\ ValidRange(call.start_year, call.end_year)
      /\ \A r \in POPULATION : r.population >= 0
      /\ \A r \in CRIME_DATA : r.count >= 0
      /\ \A w \in CRIME_WEIGHTS : w.weight > 0 )
    => /\ result.kind = "ok" => (IsRat(result.value) /\ result.value[1] >= 0)
       /\ \A y \in call.start_year..call.end_year :
            get_population(POPULATION, call.neighbourhood, y).kind = "ok"
               => get_population(POPULATION, call.neighbourhood, y).value > 0

\* C8: when a record of the queried neighbourhood inside the range has a
\* crime type without a weight, calculate_weighted_crime_rate raises; it
\* returns no rate.
C8_MissingWeight ==
    ( /\ call.op = "calculate_weighted_crime_rate"
      /\ \E r \in Records(call.neighbourhood, call.start_year, call.end_year) :
            ~HasWeight(r.crime_type) )
    => result.kind = "raise"

C8_Witness ==
    /\ call.op = "calculate_weighted_crime_rate"
    /\ ValidRange(call.start_year, call.end_year)
    /\ \E r \in Records(call.neighbourhood, call.start_year, call.end_year) :
          ~HasWeight(r.crime_type)
    /\ \E r \in Records(call.neighbourhood, call.start_year, call.end_year) :
          HasWeight(r.crime_type) /\ r.count > 0
    /\ \A y \in call.start_year..call.end_year :
          /\ get_population(POPULATION, call.neighbourhood, y).kind = "ok"
          /\ get_population(POPULATION, call.neighbourhood, y).value > 0
    /\ result = Raise("IndexError", "index 0 is out of bounds for axis 0 with size 0")

\* C9: for a neighbourhood without any population sample, get_population
\* raises for every year of [2001, 2024] and returns no population, and
\* calculate_weighted_crime_rate raises too.
C9_NoSamples ==
    ( /\ call.op \in {"get_population", "calculate_weighted_crime_rate"}
      /\ Samples(call.neighbourhood) = {} )
    => result.kind = "raise"

C9_Witness ==
    /\ call.op = "calculate_weighted_crime_rate"
    /\ ValidRange(call.start_year, call.end_year)
    /\ Samples(call.neighbourhood) = {}
    /\ \A r \in Records(call.neighbourhood, call.start_year, call.end_year) :
          HasWeight(r.crime_type)
    /\ result = Raise("IndexError", "list index out of range")

(***************************************************************************)
(* Properties of the normalization passes                                  *)
(***************************************************************************)
Rows == safety_scores.rows
MinMaxDone == Len(safety_scores.minmax) = Len(Rows) /\ Rows # <<>>
AllRatesEqual == \A i, j \in 1..Len(Rows) : Rows[i].rate = Rows[j].rate
IsLowest(i) == \A j \in 1..Len(Rows) : ~RLess(Rows[j].rate, Rows[i].rate)
IsHighest(i) == \A j \in 1..Len(Rows) : ~RLess(Rows[i].rate, Rows[j].rate)

\* C10: once the min-max column of a batch is computed, a neighbourhood with
\* the lowest rate has score 100 and one with the highest rate has score 0
\* when the rates are not all equal (rates 10 and 30 give 100 and 0); when
\* they are all equal, also in a batch of one, every score is 50.
C10_MinMaxExtremes ==
    MinMaxDone =>
        /\ AllRatesEqual => \A i \in 1..Len(Rows) : safety_scores.minmax[i] = 50
        /\ ~AllRatesEqual =>
              \A i \in 1..Len(Rows) :
                  /\ IsLowest(i) => safety_scores.minmax[i] = 100
                  /\ IsHighest(i) => safety_scores.minmax[i] = 0
        /\ (Len(Rows) = 2 /\ Rows[1].rate = <<10, 1>> /\ Rows[2].rate = <<30, 1>>)
              => safety_scores.minmax = <<100, 0>>

C10_Witness ==
    /\ pc = "done"
    /\ Len(Rows) = 3
    /\ Rows[1].rate = <<10, 1>>
    /\ Rows[2].rate = <<30, 1>>
    /\ Rows[3].rate = <<10, 1>>
    /\ result.value.minmax = <<100, 0, 100>>

ZScoreDone == pc \in {"restore", "done"} /\ Len(safety_scores.zscore) = Len(Rows)

\* C11: in a batch with at least two distinct rates, a neighbourhood whose
\* rate is not higher than another's has a min-max score and a z-score score
\* that are not lower than the other's, and no pair is ranked strictly one
\* way by the min-max column and strictly the opposite way by the z-score
\* column.
C11_RankingConsistency ==
    /\ (MinMaxDone /\ ~AllRatesEqual) =>
          \A i, j \in 1..Len(Rows) :
              FloatLeq(Rows[i].rate, Rows[j].rate)
                  => safety_scores.minmax[i] >= safety_scores.minmax[j]
    /\ ZScoreDone =>
          \A i, j \in 1..Len(Rows) :
              /\ FloatLeq(Rows[i].rate, Rows[j].rate)
                    => safety_scores.zscore[i] >= safety_scores.zscore[j]
              /\ ~( /\ safety_scores.minmax[i] > safety_scores.minmax[j]
                    /\ safety_scores.zscore[i] < safety_scores.zscore[j] )

C11_Witness ==
    /\ pc = "done"
    /\ Len(Rows) = 3
    /\ Rows[1].rate = <<10, 1>>
    /\ Rows[2].rate = <<0, 1>>
    /\ Rows[3].rate = <<30, 1>>
    /\ result.value.minmax = <<67, 100, 0>>
    /\ result.value.zscore = <<54, 65, 32>>

BatchComplete ==
    /\ call.op = "get_safety_score_data"
    /\ Rows # <<>>
    /\ Len(Rows) = Len(NEIGHBOURHOODS)

\* C12: in a batch whose rates are all equal, or with a single
\* neighbourhood, the z-score pass is handled: no z-score of the frame is nan
\* or infinite and the call does not end in the error of converting such a
\* value to an integer.
C12_DegenerateZScore ==
    (BatchComplete /\ AllRatesEqual) =>
        /\ ~(pc = "failed" /\ \E i \in 1..Len(safety_scores.zscore) :
                                  ~IsRat(safety_scores.zscore[i]))
        /\ ~(pc = "failed" /\ result.exc = "IntCastingNaNError")

BatchMean == RDiv(RSum(RateColumn(safety_scores), Len(Rows)), <<Len(Rows), 1>>)

SquaredDeviations ==
    [i \in 1..Len(Rows) |->
        RMul(RSub(Rows[i].rate, BatchMean), RSub(Rows[i].rate, BatchMean))]

\* the square of the sample standard deviation
SampleVariance == RDiv(RSum(SquaredDeviations, Len(Rows)), <<Len(Rows) - 1, 1>>)

\* c <= s * sqrt(q), for a rational c, a sign s and a rational q >= 0
RootLeq(c, s, q) ==
    IF c[1] <= 0 /\ s >= 0 THEN TRUE
    ELSE IF c[1] > 0 /\ s <= 0 THEN FALSE
    ELSE IF c[1] > 0 THEN ~RLess(q, RMul(c, c))
    ELSE ~RLess(RMul(c, c), q)

\* s is an integer nearest to 50 - ((rate - mean) / std) * 50 / 3, that is
\* (s - 50 - 1/2) * 3/50 <= (mean - rate) / std <= (s - 50 + 1/2) * 3/50
IsZScoreOf(s, rate) ==
    LET d == RSub(BatchMean, rate)
        z2 == RDiv(RMul(d, d), SampleVariance)
    IN  /\ RootLeq(Rat(3 * (2 * (s - 50) - 1), 100), Sign(d[1]), z2)
        /\ RootLeq(Rat(-3 * (2 * (s - 50) + 1), 100), -Sign(d[1]), z2)

\* C13: in a batch of at least two neighbourhoods whose sample standard
\* deviation (divisor N - 1) is not zero, the z-score pass does not fail,
\* each z-score score is 50 - ((rate - mean) / std) * 50 / 3 rounded to an
\* integer, without clamping to [0, 100], and a neighbourhood whose rate is
\* the batch mean scores 50.
C13_ZScoreFormula ==
    (BatchComplete /\ Len(Rows) >= 2 /\ SampleVariance[1] # 0) =>
        /\ ~(pc = "failed" /\ result.exc = "IntCastingNaNError")
        /\ ZScoreDone =>
              \A i \in 1..Len(Rows) :
                  /\ IsZScoreOf(safety_scores.zscore[i], Rows[i].rate)
                  /\ Rows[i].rate = BatchMean => safety_scores.zscore[i] = 50

C13_Witness ==
    /\ pc = "done"
    /\ Len(Rows) = 12
    /\ Rows[1].rate = <<10, 1>>
    /\ \A i \in 2..12 : Rows[i].rate = <<0, 1>>
    /\ result.value.zscore[1] = -3
    /\ \A i \in 2..12 : result.value.zscore[i] = 55

\* the rate of a neighbourhood for the years of the running call
RateOf(n) ==
    calculate_weighted_crime_rate(CRIME_DATA, CRIME_WEIGHTS, POPULATION, n,
                                  call.start_year, call.end_year)

Normalizing ==
    \/ pc \in {"minmax", "zscore", "restore", "done"}
    \/ safety_scores.minmax # <<>>
    \/ safety_scores.zscore # <<>>

\* C14: in get_safety_score_data, normalization starts only when the frame
\* holds the rate of every neighbourhood of the population table, in file
\* order, and the min-max column is computed from that complete column; if
\* the rate of some neighbourhood raises, normalization never starts, no
\* score exists and the call ends in an error, not in a table.
C14_BatchSynchronization ==
    call.op = "get_safety_score_data" =>
        /\ Normalizing =>
              /\ Len(Rows) = Len(NEIGHBOURHOODS)
              /\ \A i \in 1..Len(Rows) :
                    /\ Rows[i].Neighborhood = NEIGHBOURHOODS[i]
                    /\ RateOf(NEIGHBOURHOODS[i]) = Ok(Rows[i].rate)
        /\ safety_scores.minmax # <<>> =>
              min_max_column(RateColumn(safety_scores)) = Ok(safety_scores.minmax)
        /\ (\E i \in 1..Len(NEIGHBOURHOODS) : RateOf(NEIGHBOURHOODS[i]).kind = "raise") =>
              /\ ~Normalizing
              /\ pc \in {"load", "rates", "failed"}
              /\ result = NoCall \/ result.kind = "raise"

C14_Witness ==
    /\ pc = "failed"
    /\ csv_readable
    /\ Len(NEIGHBOURHOODS) = 3
    /\ Len(Rows) = 1
    /\ RateOf("A").kind = "ok"
    /\ RateOf("B").kind = "raise"
    /\ result = RateOf("B")
    /\ safety_scores.minmax = <<>>
    /\ safety_scores.zscore = <<>>

(***************************************************************************)
(* Properties of the address score                                         *)
(***************************************************************************)
\* the indices of the input rows whose distance is present
Present == {i \in 1..Len(call.df) : call.df[i].Driving_Distance_m # Missing}
Closest(i) ==
    \A j \in Present :
        ~RLess(call.df[j].Driving_Distance_m, call.df[i].Driving_Distance_m)
Farthest(i) ==
    \A j \in Present :
        ~RLess(call.df[i].Driving_Distance_m, call.df[j].Driving_Distance_m)
SameDistances ==
    \A i, j \in Present : call.df[i].Driving_Distance_m = call.df[j].Driving_Distance_m

\* C15: get_address_score returns one row for each input row whose
\* distance is present, with that distance, and none for the others; with
\* lo and hi the least and the greatest of these distances, a row's score
\* is 100 * (1 - (d - lo) / (hi - lo)) and lies in [0, 100], being 100 for
\* a closest row and 0 for a farthest one; when lo = hi every score is 100.
C15_AddressScore ==
    (call.op = "get_address_score" /\ call.has_column) =>
        /\ result.kind = "ok"
        /\ Len(result.value) = Cardinality(Present)
        /\ \A i \in Present : \E k \in 1..Len(result.value) : result.value[k].index = i
        /\ \A k \in 1..Len(result.value) :
              LET row == result.value[k]
                  i == row.index
              IN  /\ i \in Present
                  /\ row.Driving_Distance_m = call.df[i].Driving_Distance_m
                  /\ ~RLess(row.Address_Scores, <<0, 1>>)
                  /\ ~RLess(<<100, 1>>, row.Address_Scores)
                  /\ SameDistances => row.Address_Scores = <<100, 1>>
                  /\ ~SameDistances =>
                        /\ Closest(i) => row.Address_Scores = <<100, 1>>
                        /\ Farthest(i) => row.Address_Scores = <<0, 1>>
                        /\ \E lo, hi \in Present :
                              /\ Closest(lo) /\ Farthest(hi)
                              /\ LET d == row.Driving_Distance_m[1]
                                     a == call.df[lo].Driving_Distance_m[1]
                                     b == call.df[hi].Driving_Distance_m[1]
                                 IN  row.Address_Scores = Rat(100 * (b - d), b - a)

C15_Witness ==
    /\ call.op = "get_address_score"
    /\ call.has_column
    /\ Len(call.df) = 3
    /\ call.df[1].Driving_Distance_m = <<10, 1>>
    /\ call.df[2].Driving_Distance_m = Missing
    /\ call.df[3].Driving_Distance_m = <<0, 1>>
    /\ Len(result.value) = 2
    /\ result.value[1].index = 3 /\ result.value[1].Address_Scores = <<100, 1>>
    /\ result.value[2].index = 1 /\ result.value[2].Address_Scores = <<0, 1>>

(***************************************************************************)
(* Frame of get_safety_score_data                                          *)
(***************************************************************************)
\* C16: whenever a call of get_safety_score_data has ended, by returning
\* the frame or by an error raised while loading the tables, computing a
\* rate or normalizing, the working directory is the one the call started
\* in.
C16_WorkingDirectory ==
    (call.op = "get_safety_score_data" /\ pc \in {"done", "failed"}) => cwd = "caller"

====
